---- MODULE Spec2Model ----
(***************************************************************************)
(* Extension kernel of nextjs-fullstack-template: the sequential hook      *)
(* chain (HookSystem), the single-flight task queue (MessageQueue), the    *)
(* event bus (EventSystem), the configuration loader, the middleware       *)
(* chains, the registration ledger, the start of the server and its        *)
(* request handler.  Each component has its own specification over the     *)
(* shared variables; the variables of the other components stay at their   *)
(* initial value.                                                          *)
(***************************************************************************)
EXTENDS Integers, Sequences, FiniteSets, TLC

VARIABLES hooks, regCount, runs,
          queue, processing, executing, loops, taskKind, taskState, parentOf,
          execCount, startOrder, enqOrder, callState, nextTask,
          listeners, lastOp, offed,
          envFile, tomlDoc, cfgPc, tempEnv, keyOrder, keyIdx, value, passes,
          configMerged, lastGet,
          middlewares, invs, mwIndex, exec, execErr, unhandled,
          reqPc, status, routeRan, endRan,
          hookMap, hookKeys, eventMap, eventKeys, applied,
          fastifyMiddlewareList, fIdx, fState, fErr, fLog, fScript,
          startPc, stagesRun, emitted, listenCalled, bound, processOn, exitCode,
          failedAt,
          customRoutes, request, headersSent, routeCalls, defaultRan, failedStep

hookVars == <<hooks, regCount, runs>>
mqVars == <<queue, processing, executing, loops, taskKind, taskState, parentOf,
            execCount, startOrder, enqOrder, callState, nextTask>>
evVars == <<listeners, lastOp, offed>>
cfgVars == <<envFile, tomlDoc, cfgPc, tempEnv, keyOrder, keyIdx, value, passes,
             configMerged, lastGet>>
mwVars == <<middlewares, invs, mwIndex, exec, execErr, unhandled,
            reqPc, status, routeRan, endRan>>
ledgerVars == <<hookMap, hookKeys, eventMap, eventKeys, applied>>
fastifyVars == <<fastifyMiddlewareList, fIdx, fState, fErr, fLog, fScript>>
startVars == <<startPc, stagesRun, emitted, listenCalled, bound, processOn,
               exitCode, failedAt>>
reqVars == <<customRoutes, request, headersSent, routeCalls, defaultRan, failedStep>>
vars == <<hooks, regCount, runs,
          queue, processing, executing, loops, taskKind, taskState, parentOf,
          execCount, startOrder, enqOrder, callState, nextTask,
          listeners, lastOp, offed,
          envFile, tomlDoc, cfgPc, tempEnv, keyOrder, keyIdx, value, passes,
          configMerged, lastGet,
          middlewares, invs, mwIndex, exec, execErr, unhandled,
          reqPc, status, routeRan, endRan,
          hookMap, hookKeys, eventMap, eventKeys, applied,
          fastifyMiddlewareList, fIdx, fState, fErr, fLog, fScript,
          startPc, stagesRun, emitted, listenCalled, bound, processOn, exitCode,
          failedAt,
          customRoutes, request, headersSent, routeCalls, defaultRan, failedStep>>

(***************************************************************************)
(* Bounds                                                                  *)
(***************************************************************************)
MaxRegs == 3
MaxRuns == 2
MaxTasks == 4
MaxListeners == 3
MaxEnvLines == 3
MaxPathLen == 2
MaxMw == 3
MaxLedger == 3
MaxApplies == 2
MaxFmw == 3
MaxRoutes == 2

(***************************************************************************)
(* JavaScript values that flow through a hook stage                        *)
(***************************************************************************)
Num(k) == [kind |-> "num", n |-> k, items |-> <<>>]
Rec(k) == [kind |-> "rec", n |-> k, items |-> <<>>]
List(s) == [kind |-> "list", n |-> 0, items |-> s]
Undef == [kind |-> "undef", n |-> 0, items |-> <<>>]
NaN == [kind |-> "nan", n |-> 0, items |-> <<>>]
Err(k) == [kind |-> "err", n |-> k, items |-> <<>>]
TypeError == Err(0)
HandlerError == Err(1)

Returned(v) == [ok |-> TRUE, val |-> v]
Thrown(e) == [ok |-> FALSE, val |-> e]

Stages == {"beforeServerStart", "onRequestStart"}
ListHandlers == {"inc", "dbl"}
Handlers == {"inc", "dbl", "count", "fail"}
\* Each stage is run with the arguments of its call site: a context record
\* for beforeServerStart, a number for onRequestStart
ArgsOf(s) == IF s = "beforeServerStart" THEN <<Rec(0)>> ELSE <<Num(1)>>
RunIds == 1..MaxRuns

\* The handlers registered on the stages:
\*   inc    async (x) => [x + 1]
\*   dbl    async (x) => [x * 2]
\*   count  async (ctx) => ({ count: (ctx.count || 0) + 1 })
\*   fail   async () => { throw HandlerError }
Apply(h, a) ==
  CASE h = "inc" ->
         IF Len(a) > 0 /\ a[1].kind = "num"
         THEN Returned(List(<<Num(a[1].n + 1)>>))
         ELSE Returned(List(<<NaN>>))
    [] h = "dbl" ->
         IF Len(a) > 0 /\ a[1].kind = "num"
         THEN Returned(List(<<Num(a[1].n * 2)>>))
         ELSE Returned(List(<<NaN>>))
    [] h = "count" ->
         IF Len(a) = 0 \/ a[1].kind = "undef"
         THEN Thrown(TypeError)
         ELSE IF a[1].kind = "rec"
              THEN Returned(Rec(a[1].n + 1))
              ELSE Returned(Rec(1))
    [] OTHER -> Thrown(HandlerError)

(***************************************************************************)
(* HookSystem                                                              *)
(***************************************************************************)
IdleRun == [pc |-> "idle", stage |-> "beforeServerStart", live |-> FALSE,
            n0 |-> 0, idx |-> 0, result |-> Undef, args |-> <<>>, calls |-> <<>>,
            settled |-> 0, pending |-> Returned(Undef), out |-> Undef]

\* const callbacks = this.hooks[hookName] || [] : the stage's own array when
\* it exists, a private empty array otherwise
\* The callbacks are the handlers registered when run was called
CallbacksSnapshot(rs, hk) == SubSeq(hk[rs.stage], 1, rs.n0)

\* The callbacks are those of the ledger
CallbacksOfLedger(rs, hk) == hookMap[rs.stage]

Callbacks(rs, hk) == IF rs.live THEN hk[rs.stage] ELSE <<>>

\* One iteration of the for-of loop of run, up to its await (or the return)
IterateOrigArgs(rs) ==
  LET cbs == Callbacks(rs, hooks) IN
  IF rs.idx < Len(cbs)
  THEN LET h == cbs[rs.idx + 1] IN
       [rs EXCEPT !.pc = "awaiting", !.idx = @ + 1,
                  !.calls = Append(@, [h |-> h, args |-> rs.args]),
                  !.pending = Apply(h, rs.args)]
  ELSE [rs EXCEPT !.pc = "resolved", !.out = rs.result]

Iterate(rs) ==
  LET cbs == Callbacks(rs, hooks) IN
  IF rs.idx < Len(cbs)
  THEN IF rs.result.kind # "list"
       THEN [rs EXCEPT !.pc = "rejected", !.out = TypeError]
       ELSE LET h == cbs[rs.idx + 1] IN
            [rs EXCEPT !.pc = "awaiting", !.idx = @ + 1,
                       !.calls = Append(@, [h |-> h, args |-> rs.result.items]),
                       !.pending = Apply(h, rs.result.items)]
  ELSE [rs EXCEPT !.pc = "resolved", !.out = rs.result]

\* The awaited handler has settled: result = await callback(...result)
ResumeSwallow(rs) ==
  IF rs.pending.ok
  THEN Iterate([rs EXCEPT !.settled = @ + 1, !.result = rs.pending.val])
  ELSE Iterate([rs EXCEPT !.settled = @ + 1])

\* result is one variable of the HookSystem, shared by the runs of a stage:
\* a resumed run goes on with the value another suspended run waits for
ResumeShared(rs) ==
  LET others == {q \in RunIds : /\ runs[q].pc = "awaiting"
                                /\ runs[q].stage = rs.stage
                                /\ runs[q].idx # rs.idx
                                /\ runs[q].pending.ok}
  IN IF rs.pending.ok
     THEN Iterate([rs EXCEPT !.settled = @ + 1,
                             !.result = IF others = {} THEN rs.pending.val
                                        ELSE runs[CHOOSE q \in others : TRUE].pending.val])
     ELSE [rs EXCEPT !.settled = @ + 1, !.pc = "rejected", !.out = rs.pending.val]

Resume(rs) ==
  IF rs.pending.ok
  THEN Iterate([rs EXCEPT !.settled = @ + 1, !.result = rs.pending.val])
  ELSE [rs EXCEPT !.settled = @ + 1, !.pc = "rejected", !.out = rs.pending.val]

register(s, h) ==
  /\ regCount < MaxRegs
  /\ hooks' = [hooks EXCEPT ![s] = Append(@, h)]
  /\ regCount' = regCount + 1
  /\ UNCHANGED <<runs, mqVars, evVars, cfgVars, mwVars, ledgerVars, fastifyVars, startVars, reqVars>>

run(r, s) ==
  /\ runs[r].pc = "idle"
  /\ \A q \in RunIds : q < r => runs[q].pc # "idle"
  /\ runs' = [runs EXCEPT ![r] =
                Iterate([IdleRun EXCEPT !.stage = s, !.live = (hooks[s] # <<>>),
                                        !.n0 = Len(hooks[s]),
                                        !.result = List(ArgsOf(s)),
                                        !.args = ArgsOf(s)])]
  /\ UNCHANGED <<hooks, regCount, mqVars, evVars, cfgVars, mwVars, ledgerVars, fastifyVars, startVars, reqVars>>

HandlerSettles(r) ==
  /\ runs[r].pc = "awaiting"
  /\ runs' = [runs EXCEPT ![r] = Resume(runs[r])]
  /\ UNCHANGED <<hooks, regCount, mqVars, evVars, cfgVars, mwVars, ledgerVars, fastifyVars, startVars, reqVars>>

InitHook ==
  /\ hooks = [s \in Stages |-> <<>>]
  /\ regCount = 0
  /\ runs = [r \in RunIds |-> IdleRun]

(***************************************************************************)
(* MessageQueue                                                            *)
(***************************************************************************)
TaskIds == 1..MaxTasks
\* A task is an async function that settles later ("async"), or a function
\* that throws before returning a promise ("syncThrow")
TaskKinds == {"async", "syncThrow"}

\* The fields of the queue and the bookkeeping of its calls, as one record
MQState == [queue |-> queue, processing |-> processing, executing |-> executing,
            loops |-> loops, taskState |-> taskState, execCount |-> execCount,
            startOrder |-> startOrder, callState |-> callState]

\* this.queue.push(task)
PushFront(q, t) == <<t>> \o q

Push(q, t) == Append(q, t)

\* this.processing = false, and processQueue (so the enqueue awaiting it) returns
LoopExit(st, owner) ==
  [st EXCEPT !.processing = FALSE, !.callState[owner] = "resolved"]

RECURSIVE WhileLoop(_, _, _)
RECURSIVE LoopBack(_, _, _)
RECURSIVE OnTaskError(_, _, _)

\* The end of the loop body: back to the test of the while
LoopBackExit(st, owner, kinds) == LoopExit(st, owner)

LoopBack(st, owner, kinds) == WhileLoop(st, owner, kinds)

\* catch (error) { console.error(...) }
OnTaskErrorRethrow(st, owner, kinds) ==
  [st EXCEPT !.callState[owner] = "rejected"]

OnTaskError(st, owner, kinds) == LoopBack(st, owner, kinds)

\* while (this.queue.length > 0) { const task = this.queue.shift()!; try { await task() } ... }
\* up to the await of an asynchronous task, or to the exit of the loop
WhileLoop(st, owner, kinds) ==
  IF st.queue # <<>>
  THEN LET t == Head(st.queue)
           st1 == [st EXCEPT !.queue = Tail(@), !.execCount[t] = @ + 1,
                             !.startOrder = Append(@, t)]
       IN IF kinds[t] = "syncThrow"
          THEN OnTaskError([st1 EXCEPT !.taskState[t] = "failed"], owner, kinds)
          ELSE [st1 EXCEPT !.taskState[t] = "running",
                           !.executing = @ \cup {t},
                           !.loops = @ \cup {<<owner, t>>}]
  ELSE LoopExit(st, owner)

processQueueNoGuard(st, owner, kinds) ==
  WhileLoop([st EXCEPT !.processing = TRUE], owner, kinds)

processQueue(st, owner, kinds) ==
  IF st.processing
  THEN [st EXCEPT !.callState[owner] = "resolved"]
  ELSE WhileLoop([st EXCEPT !.processing = TRUE], owner, kinds)

SetMQ(st) ==
  /\ queue' = st.queue
  /\ processing' = st.processing
  /\ executing' = st.executing
  /\ loops' = st.loops
  /\ taskState' = st.taskState
  /\ execCount' = st.execCount
  /\ startOrder' = st.startOrder
  /\ callState' = st.callState

\* enqueue(task), called by the task `parent` while it executes, or from
\* outside any task (parent = 0)
enqueue(kind, parent) ==
  /\ nextTask <= MaxTasks
  /\ parent \in executing \cup {0}
  /\ LET t == nextTask
         kinds == [taskKind EXCEPT ![t] = kind]
         st0 == [MQState EXCEPT !.queue = Push(@, t),
                                !.taskState[t] = "queued",
                                !.callState[t] = "pending"]
     IN /\ SetMQ(processQueue(st0, t, kinds))
        /\ taskKind' = kinds
        /\ parentOf' = [parentOf EXCEPT ![t] = parent]
        /\ enqOrder' = Append(enqOrder, t)
        /\ nextTask' = t + 1
  /\ UNCHANGED <<hookVars, evVars, cfgVars, mwVars, ledgerVars, fastifyVars, startVars, reqVars>>

\* The promise of the executing task t settles and its drain loop resumes
TaskSettles(t, ok) ==
  /\ t \in executing
  /\ \E owner \in TaskIds :
       /\ <<owner, t>> \in loops
       /\ LET st0 == [MQState EXCEPT !.executing = @ \ {t},
                                     !.loops = @ \ {<<owner, t>>},
                                     !.taskState[t] = IF ok THEN "ok" ELSE "failed"]
          IN SetMQ(IF ok THEN LoopBack(st0, owner, taskKind)
                         ELSE OnTaskError(st0, owner, taskKind))
  /\ UNCHANGED <<taskKind, parentOf, enqOrder, nextTask, hookVars, evVars, cfgVars, mwVars, ledgerVars, fastifyVars, startVars, reqVars>>

InitMQ ==
  /\ queue = <<>>
  /\ processing = FALSE
  /\ executing = {}
  /\ loops = {}
  /\ taskKind = [t \in TaskIds |-> "none"]
  /\ taskState = [t \in TaskIds |-> "new"]
  /\ parentOf = [t \in TaskIds |-> 0]
  /\ execCount = [t \in TaskIds |-> 0]
  /\ startOrder = <<>>
  /\ enqOrder = <<>>
  /\ callState = [t \in TaskIds |-> "none"]
  /\ nextTask = 1

(***************************************************************************)
(* EventSystem, a wrapper of one node EventEmitter                         *)
(***************************************************************************)
Topics == {"serverStarted", "error"}
\* The topic startServer emits when the start fails
AllTopics == Topics \cup {"serverError"}
Listeners == {"l1", "l2", "bad"}
\* l1 and l2 return; bad throws when it is called
Throws(l) == l = "bad"

NoOp == [op |-> "none", topic |-> "serverStarted", l |-> "l1",
         before |-> [t \in AllTopics |-> <<>>], invoked |-> <<>>, threw |-> FALSE]

RECURSIVE CallInOrder(_)
\* The listeners are called one after the other; an exception leaves the loop
CallInOrder(hs) ==
  IF hs = <<>> THEN [invoked |-> <<>>, threw |-> FALSE]
  ELSE IF Throws(Head(hs)) THEN [invoked |-> <<Head(hs)>>, threw |-> TRUE]
  ELSE LET rest == CallInOrder(Tail(hs))
       IN [invoked |-> <<Head(hs)>> \o rest.invoked, threw |-> rest.threw]

\* emitter.emit(event, ...args): an 'error' event without listener throws
EmitterEmit(topic, hs) ==
  IF topic = "error" /\ hs = <<>>
  THEN [invoked |-> <<>>, threw |-> TRUE]
  ELSE CallInOrder(hs)

RemoveAt(hs, i) == SubSeq(hs, 1, i - 1) \o SubSeq(hs, i + 1, Len(hs))

\* emitter.off(event, listener): the list is searched from its end and the
\* first match is removed
RemoveFirstMatch(hs, l) ==
  IF \E i \in 1..Len(hs) : hs[i] = l
  THEN RemoveAt(hs, CHOOSE i \in 1..Len(hs) :
                      hs[i] = l /\ \A j \in 1..(i - 1) : hs[j] # l)
  ELSE hs

RECURSIVE RemoveListener(_, _)
RemoveListener(hs, l) ==
  IF hs = <<>> THEN hs
  ELSE IF hs[Len(hs)] = l THEN SubSeq(hs, 1, Len(hs) - 1)
  ELSE Append(RemoveListener(SubSeq(hs, 1, Len(hs) - 1), l), hs[Len(hs)])

RECURSIVE TotalListeners(_)
TotalListeners(ts) ==
  IF ts = {} THEN 0
  ELSE LET t == CHOOSE x \in ts : TRUE
       IN Len(listeners[t]) + TotalListeners(ts \ {t})

on(topic, l) ==
  /\ TotalListeners(AllTopics) < MaxListeners
  /\ listeners' = [listeners EXCEPT ![topic] = Append(@, l)]
  /\ offed' = [offed EXCEPT ![topic] = @ \ {l}]
  /\ lastOp' = [NoOp EXCEPT !.op = "on", !.topic = topic, !.l = l,
                            !.before = listeners]
  /\ UNCHANGED <<hookVars, mqVars, cfgVars, mwVars, ledgerVars, fastifyVars, startVars, reqVars>>

off(topic, l) ==
  /\ listeners' = [listeners EXCEPT ![topic] = RemoveListener(@, l)]
  /\ offed' = [offed EXCEPT ![topic] = @ \cup {l}]
  /\ lastOp' = [NoOp EXCEPT !.op = "off", !.topic = topic, !.l = l,
                            !.before = listeners]
  /\ UNCHANGED <<hookVars, mqVars, cfgVars, mwVars, ledgerVars, fastifyVars, startVars, reqVars>>

emit(topic) ==
  /\ LET res == EmitterEmit(topic, listeners[topic])
     IN lastOp' = [NoOp EXCEPT !.op = "emit", !.topic = topic,
                               !.before = listeners,
                               !.invoked = res.invoked, !.threw = res.threw]
  /\ UNCHANGED <<listeners, offed, hookVars, mqVars, cfgVars, mwVars, ledgerVars, fastifyVars, startVars, reqVars>>

InitEvent ==
  /\ listeners = [t \in AllTopics |-> <<>>]
  /\ lastOp = NoOp
  /\ offed = [t \in AllTopics |-> {}]

(***************************************************************************)
(* Configuration: parseEnv, the merge with the TOML document, getConfig    *)
(***************************************************************************)
\* A value of the environment file is a sequence of tokens: single
\* characters and ${KEY} references
RefTokens == {"${A}", "${B}", "${C}", "${UNSET}"}
RefKey(tok) ==
  CASE tok = "${A}" -> "A"
    [] tok = "${B}" -> "B"
    [] tok = "${C}" -> "C"
    [] OTHER -> "UNSET"
EnvKeys == {"A", "B", "C", "UNSET"}

\* The lines an environment file is made of; a comment line has no key
EnvLines == {[key |-> "A", val |-> <<"1">>],
             [key |-> "A", val |-> <<"${A}">>],
             [key |-> "B", val |-> <<"${A}", "2">>],
             [key |-> "C", val |-> <<"${B}", "3">>],
             [key |-> "C", val |-> <<"${UNSET}">>],
             [key |-> "", val |-> <<>>]}

RECURSIVE FilesOfLen(_)
FilesOfLen(k) ==
  IF k = 0 THEN {<<>>}
  ELSE {Append(f, l) : f \in FilesOfLen(k - 1),  l \in EnvLines}

NoRepeat(f) == \A i \in 1..Len(f), j \in 1..Len(f) : f[i] = f[j] => i = j
EnvFiles == {f \in UNION {FilesOfLen(k) : k \in 0..MaxEnvLines} : NoRepeat(f)}

\* Values of the merged configuration: strings, numbers and tables
CfgStr(q) == [t |-> "str", s |-> q, n |-> 0, p |-> <<>>]
CfgNum(k) == [t |-> "num", s |-> <<>>, n |-> k, p |-> <<>>]
CfgMap(path) == [t |-> "map", s |-> <<>>, n |-> 0, p |-> path]
EmptyString == CfgStr(<<>>)

\* A configuration is the set of its leaves, each with its path
TomlA == {[path |-> <<"A">>, val |-> CfgNum(7)]}
TomlD == {[path |-> <<"D", "x">>, val |-> CfgStr(<<"v">>)],
          [path |-> <<"D", "n">>, val |-> CfgNum(0)]}
TomlDocs == {{}, TomlA, TomlD, TomlA \cup TomlD}

PathKeys == {"A", "C", "D", "x", "length"}
RECURSIVE PathsOfLen(_)
PathsOfLen(k) ==
  IF k = 0 THEN {<<>>}
  ELSE {Append(q, x) : q \in PathsOfLen(k - 1), x \in PathKeys}
Paths == UNION {PathsOfLen(k) : k \in 1..MaxPathLen}

\* lines.forEach(...): tempEnv[key.trim()] = value.trim(), lines without key
\* or value are skipped
RECURSIVE TempEnvOf(_)
TempEnvOf(f) ==
  IF f = <<>> THEN [k \in EnvKeys |-> <<>>]
  ELSE LET l == f[Len(f)]
           before == TempEnvOf(SubSeq(f, 1, Len(f) - 1))
       IN IF l.key = "" \/ l.val = <<>> THEN before
          ELSE [before EXCEPT ![l.key] = l.val]

\* Object.keys(tempEnv): the keys in the order of their first assignment
RECURSIVE KeyOrderOf(_)
KeyOrderOf(f) ==
  IF f = <<>> THEN <<>>
  ELSE LET l == f[Len(f)]
           before == KeyOrderOf(SubSeq(f, 1, Len(f) - 1))
       IN IF l.key = "" \/ l.val = <<>> \/ \E i \in 1..Len(before) : before[i] = l.key
          THEN before
          ELSE Append(before, l.key)

\* /\$\{([^}]+)\}/g.test(value)
HasRef(v) == \E i \in 1..Len(v) : v[i] \in RefTokens

RECURSIVE SubstituteStored(_, _)
\* Resolves a reference against the values stored so far
SubstituteStored(v, env) ==
  IF v = <<>> THEN <<>>
  ELSE LET tok == Head(v)
           hit == {e \in configMerged : e.path = <<RefKey(tok)>>}
       IN (IF tok \in RefTokens /\ hit # {}
           THEN (CHOOSE e \in hit : TRUE).val.s
           ELSE <<tok>>) \o SubstituteStored(Tail(v), env)

RECURSIVE Substitute(_, _)
\* value.replace(/\$\{([^}]+)\}/g, (_, refKey) =>
\*   tempEnv[refKey] !== undefined ? tempEnv[refKey] : `\${${refKey}}`)
Substitute(v, env) ==
  IF v = <<>> THEN <<>>
  ELSE LET tok == Head(v)
       IN (IF tok \in RefTokens /\ env[RefKey(tok)] # <<>>
           THEN env[RefKey(tok)]
           ELSE <<tok>>) \o Substitute(Tail(v), env)

TopKeys(c) == {e.path[1] : e \in c}

\* configMerged = {...configMerged, ...configToml}
Merge(c, toml) == toml \cup {e \in c : e.path[1] \notin TopKeys(toml)}

\* acc.hasOwnProperty(key) and acc[key] for the accumulator of the reduce
IsPrefix(q, path) == Len(q) <= Len(path) /\ SubSeq(path, 1, Len(q)) = q
Truthy(acc) ==
  \/ acc.t = "map"
  \/ (acc.t = "str" /\ acc.s # <<>>)
  \/ (acc.t = "num" /\ acc.n # 0)
HasOwn(c, acc, key) ==
  CASE acc.t = "map" -> \E e \in c : IsPrefix(Append(acc.p, key), e.path)
    [] acc.t = "str" -> key = "length"
    [] OTHER -> FALSE
Member(c, acc, key) ==
  IF acc.t = "str" THEN CfgNum(Len(acc.s))
  ELSE LET q == Append(acc.p, key)
       IN IF \E e \in c : e.path = q
          THEN (CHOOSE e \in c : e.path = q).val
          ELSE CfgMap(q)

RECURSIVE Reduce(_, _, _)
\* keys.reduce((acc, key) => acc && acc.hasOwnProperty(key) ? acc[key] : "", configMerged)
Reduce(c, acc, keys) ==
  IF keys = <<>> THEN acc
  ELSE Reduce(c,
              IF Truthy(acc) /\ HasOwn(c, acc, Head(keys))
              THEN Member(c, acc, Head(keys))
              ELSE EmptyString,
              Tail(keys))

NoGet == [done |-> FALSE, path |-> <<>>, result |-> EmptyString]

\* parseEnv up to the loop over the keys
ParseLines ==
  /\ cfgPc = "start"
  /\ tempEnv' = TempEnvOf(envFile)
  /\ keyOrder' = KeyOrderOf(envFile)
  /\ IF KeyOrderOf(envFile) = <<>>
     THEN cfgPc' = "envDone" /\ keyIdx' = 0 /\ value' = <<>>
     ELSE /\ cfgPc' = "resolving"
          /\ keyIdx' = 1
          /\ value' = TempEnvOf(envFile)[KeyOrderOf(envFile)[1]]
  /\ UNCHANGED <<envFile, tomlDoc, passes, configMerged, lastGet,
                 hookVars, mqVars, evVars, mwVars, ledgerVars, fastifyVars, startVars, reqVars>>

\* One pass of the while loop that resolves the references of a value
ResolvePass ==
  /\ cfgPc = "resolving"
  /\ HasRef(value)
  /\ value' = Substitute(value, tempEnv)
  /\ passes' = 1 - passes
  /\ UNCHANGED <<envFile, tomlDoc, cfgPc, tempEnv, keyOrder, keyIdx,
                 configMerged, lastGet, hookVars, mqVars, evVars, mwVars, ledgerVars, fastifyVars, startVars, reqVars>>

\* configMerged[key] = value, and the next key
StoreKey ==
  /\ cfgPc = "resolving"
  /\ ~HasRef(value)
  /\ configMerged' = {e \in configMerged : e.path # <<keyOrder[keyIdx]>>}
                       \cup {[path |-> <<keyOrder[keyIdx]>>, val |-> CfgStr(value)]}
  /\ passes' = 0
  /\ IF keyIdx < Len(keyOrder)
     THEN /\ keyIdx' = keyIdx + 1
          /\ value' = tempEnv[keyOrder[keyIdx + 1]]
          /\ cfgPc' = "resolving"
     ELSE /\ keyIdx' = keyIdx
          /\ value' = <<>>
          /\ cfgPc' = "envDone"
  /\ UNCHANGED <<envFile, tomlDoc, tempEnv, keyOrder, lastGet,
                 hookVars, mqVars, evVars, mwVars, ledgerVars, fastifyVars, startVars, reqVars>>

\* The TOML document is merged once parseEnv has returned
MergeToml ==
  /\ cfgPc = "envDone"
  /\ configMerged' = Merge(configMerged, tomlDoc)
  /\ cfgPc' = "ready"
  /\ UNCHANGED <<envFile, tomlDoc, tempEnv, keyOrder, keyIdx, value, passes,
                 lastGet, hookVars, mqVars, evVars, mwVars, ledgerVars, fastifyVars, startVars, reqVars>>

getConfig(path) ==
  /\ cfgPc = "ready"
  /\ lastGet' = [done |-> TRUE, path |-> path,
                 result |-> Reduce(configMerged, CfgMap(<<>>), path)]
  /\ UNCHANGED <<envFile, tomlDoc, cfgPc, tempEnv, keyOrder, keyIdx, value,
                 passes, configMerged, hookVars, mqVars, evVars, mwVars, ledgerVars, fastifyVars, startVars, reqVars>>

ConfigStart ==
  /\ cfgPc = "start"
  /\ tempEnv = [k \in EnvKeys |-> <<>>]
  /\ keyOrder = <<>>
  /\ keyIdx = 0
  /\ value = <<>>
  /\ passes = 0
  /\ configMerged = {}
  /\ lastGet = NoGet

\* The process of the other specifications has no configuration file
InitConfigNone == envFile = <<>> /\ tomlDoc = {} /\ ConfigStart

InitConfig == envFile \in EnvFiles /\ tomlDoc \in TomlDocs /\ ConfigStart

(***************************************************************************)
(* The middleware chain of the HTTP server: use, executeMiddlewares and    *)
(* the part of the request handler that follows it                         *)
(***************************************************************************)
\* The middlewares a module can register; each does some work of its own
\* before it acts:
\*   pass       async (req, res, next) => { await work(); await next() }
\*   stop       async (req, res, next) => { await work() }
\*   respond    async (req, res, next) => { await work(); res.end() }
\*   fail       async (req, res, next) => { await work(); throw e }
\*   fire       async (req, res, next) => { await work(); next() }
\*   twice      async (req, res, next) => { await work(); await next(); await next() }
\*   failAfter  async (req, res, next) => { await work(); await next(); throw e }
MwKinds == {"pass", "stop", "respond", "fail", "fire", "twice", "failAfter"}

\* The state of one executeMiddlewares call
MwState == [invs |-> invs, index |-> mwIndex, exec |-> exec, err |-> execErr,
            unhandled |-> unhandled]

RECURSIVE CallNext(_, _, _)
RECURSIVE SettleInv(_, _, _)
RECURSIVE ResumeCaller(_, _, _)

\* The continuation of an invocation starts the middleware registered
\* after its own
CallNextOfCaller(ms, p, awaited) ==
  LET k == IF p = 0 THEN 1 ELSE ms.invs[p].mw + 1
  IN IF k <= Len(middlewares)
     THEN [ms EXCEPT !.index = k,
                     !.invs = Append(@, [mw |-> k, phase |-> "work",
                                         parent |-> p, awaited |-> awaited,
                                         err |-> 0])]
     ELSE IF awaited THEN ResumeCaller(ms, p, 0) ELSE ms

\* nextMiddleware(), called by the invocation p (0: by executeMiddlewares),
\* which awaits the returned promise or not
CallNext(ms, p, awaited) ==
  IF ms.index < Len(middlewares)
  THEN [ms EXCEPT !.index = @ + 1,
                  !.invs = Append(@, [mw |-> ms.index + 1, phase |-> "work",
                                      parent |-> p, awaited |-> awaited,
                                      err |-> 0])]
  ELSE IF awaited THEN ResumeCaller(ms, p, 0) ELSE ms

\* The nextMiddleware call that invoked c goes on to the next middleware when
\* c has returned
SettleInvAdvance(ms, c, e) ==
  LET ms1 == [ms EXCEPT !.invs[c].phase = IF e = 0 THEN "returned" ELSE "threw",
                        !.invs[c].err = e]
  IN IF e = 0 /\ ms.index < Len(middlewares)
     THEN CallNext(ms1, ms.invs[c].parent, ms.invs[c].awaited)
     ELSE IF ms.invs[c].awaited THEN ResumeCaller(ms1, ms.invs[c].parent, e)
     ELSE IF e # 0 THEN [ms1 EXCEPT !.unhandled = TRUE]
     ELSE ms1

\* The invocation c returns (e = 0) or throws e: the promise of the
\* nextMiddleware call that awaits it settles the same way
SettleInv(ms, c, e) ==
  LET ms1 == [ms EXCEPT !.invs[c].phase = IF e = 0 THEN "returned" ELSE "threw",
                        !.invs[c].err = e]
  IN IF ms.invs[c].awaited THEN ResumeCaller(ms1, ms.invs[c].parent, e)
     ELSE IF e # 0 THEN [ms1 EXCEPT !.unhandled = TRUE]
     ELSE ms1

\* The promise awaited by p has settled
ResumeCaller(ms, p, e) ==
  IF p = 0
  THEN [ms EXCEPT !.exec = IF e = 0 THEN "resolved" ELSE "rejected", !.err = e]
  ELSE IF e # 0 THEN SettleInv(ms, p, e)
  ELSE IF middlewares[ms.invs[p].mw] = "twice" /\ ms.invs[p].phase = "next1"
       THEN CallNext([ms EXCEPT !.invs[p].phase = "next2"], p, TRUE)
  ELSE IF middlewares[ms.invs[p].mw] = "failAfter"
       THEN SettleInv(ms, p, ms.invs[p].mw)
  ELSE SettleInv(ms, p, 0)

SetMw(ms) ==
  /\ invs' = ms.invs
  /\ mwIndex' = ms.index
  /\ exec' = ms.exec
  /\ execErr' = ms.err
  /\ unhandled' = ms.unhandled

\* use(middleware), called while the modules are loaded
use(kind) ==
  /\ exec = "idle"
  /\ reqPc = "idle"
  /\ Len(middlewares) < MaxMw
  /\ middlewares' = Append(middlewares, kind)
  /\ UNCHANGED <<invs, mwIndex, exec, execErr, unhandled, reqPc, status,
                 routeRan, endRan, reqVars, hookVars, mqVars, evVars, cfgVars,
                 ledgerVars, fastifyVars, startVars>>

\* The segments of a route template and of a request path:
\* pathname.split('/').filter(Boolean)
Templates == {<<"api", "custom">>, <<"api", ":id">>}
Pathnames == {<<"api", "custom">>, <<"api", "7">>, <<>>}
Methods == {"GET", "PATCH"}
\* A route handler answers the request ("ok") or throws ("throws")
RouteKinds == {"ok", "throws"}
NoRequest == [method |-> "none", path |-> <<>>]

IsParam(seg) == seg = ":id"

\* parseRouteParams(path, routeTemplate): null, or the parameters
NoMatch == [matched |-> FALSE, params |-> <<>>]
parseRouteParams(path, tpl) ==
  IF Len(path) # Len(tpl) THEN NoMatch
  ELSE IF \E i \in 1..Len(tpl) : ~IsParam(tpl[i]) /\ tpl[i] # path[i] THEN NoMatch
  ELSE [matched |-> TRUE,
        params |-> [i \in 1..Len(tpl) |-> IF IsParam(tpl[i]) THEN path[i] ELSE ""]]

\* customRoutes[method] || {} : the sample modules register GET routes only
RouteHandlers(method) == IF method = "GET" THEN customRoutes ELSE <<>>

\* for (const routeTemplate in routeHandlers) { if (params) { ...; break } }
\* the index of the first template that matches, 0 if none
FirstMatch(path, routes) ==
  LET M == {i \in 1..Len(routes) : parseRouteParams(path, routes[i].tpl).matched}
  IN IF M = {} THEN 0 ELSE CHOOSE i \in M : \A j \in M : i <= j

\* customRoutes[method][path] = handler: a template registered again keeps
\* its place and gets the new handler
route(tpl, kind) ==
  /\ reqPc = "idle"
  /\ \/ \E i \in 1..Len(customRoutes) : customRoutes[i].tpl = tpl
     \/ Len(customRoutes) < MaxRoutes
  /\ customRoutes' =
       IF \E i \in 1..Len(customRoutes) : customRoutes[i].tpl = tpl
       THEN [i \in 1..Len(customRoutes) |->
               IF customRoutes[i].tpl = tpl THEN [tpl |-> tpl, kind |-> kind]
               ELSE customRoutes[i]]
       ELSE Append(customRoutes, [tpl |-> tpl, kind |-> kind])
  /\ customRoutes' # customRoutes
  /\ UNCHANGED <<mwVars, request, headersSent, routeCalls, defaultRan,
                 failedStep, hookVars, mqVars, evVars, cfgVars, ledgerVars,
                 fastifyVars, startVars>>

\* A request arrives: await hookSystem.run('onRequestStart', ...)
requestArrives(method, path) ==
  /\ reqPc = "idle"
  /\ request' = [method |-> method, path |-> path]
  /\ reqPc' = "onRequestStart"
  /\ UNCHANGED <<middlewares, invs, mwIndex, exec, execErr, unhandled, status,
                 routeRan, endRan, customRoutes, headersSent, routeCalls,
                 defaultRan, failedStep, hookVars, mqVars, evVars, cfgVars,
                 ledgerVars, fastifyVars, startVars>>

\* The run of onRequestStart has resolved: the request handler calls
\* executeMiddlewares(req, res)
executeMiddlewares ==
  /\ reqPc = "onRequestStart"
  /\ exec = "idle"
  /\ SetMw(CallNext([MwState EXCEPT !.exec = "pending"], 0, TRUE))
  /\ reqPc' = "middlewares"
  /\ UNCHANGED <<middlewares, status, routeRan, endRan, reqVars,
                 hookVars, mqVars, evVars, cfgVars, ledgerVars, fastifyVars,
                 startVars>>

\* The work of the invocation c is done and the middleware acts
MiddlewareActs(c) ==
  /\ c \in 1..Len(invs)
  /\ invs[c].phase = "work"
  /\ LET kind == middlewares[invs[c].mw]
         waiting == [MwState EXCEPT !.invs[c].phase = "next1"]
     IN /\ SetMw(CASE kind \in {"pass", "twice", "failAfter"} -> CallNext(waiting, c, TRUE)
                   [] kind \in {"stop", "respond"} -> SettleInv(MwState, c, 0)
                   [] kind = "fail" -> SettleInv(MwState, c, invs[c].mw)
                   [] OTHER -> SettleInv(CallNext(MwState, c, FALSE), c, 0))
        /\ headersSent' = (headersSent \/ kind = "respond")
  /\ UNCHANGED <<middlewares, reqPc, status, routeRan, endRan, customRoutes,
                 request, routeCalls, defaultRan, failedStep,
                 hookVars, mqVars, evVars, cfgVars, ledgerVars, fastifyVars,
                 startVars>>

\* The routes are tried only when the middleware chain ran to its end
DispatchIfChainCompleted(pc) ==
  LET m == IF mwIndex < Len(middlewares) THEN 0
           ELSE FirstMatch(request.path, RouteHandlers(request.method))
  IN [pc |-> IF m # 0 THEN "route"
             ELSE IF ~headersSent /\ mwIndex = Len(middlewares) THEN "default"
             ELSE "onRequestEnd",
      calls |-> IF m # 0 THEN <<m>> ELSE <<>>]

\* The route loop, then if (!routeMatched && !nextRes.headersSent) handle(...)
\* and else the run of onRequestEnd
Dispatch(pc) ==
  LET m == FirstMatch(request.path, RouteHandlers(request.method))
  IN [pc |-> IF m # 0 THEN "route" ELSE IF ~headersSent THEN "default"
             ELSE "onRequestEnd",
      calls |-> IF m # 0 THEN <<m>> ELSE <<>>]

\* await executeMiddlewares(...) has resolved: the routes are tried
routeDispatch ==
  /\ reqPc = "middlewares"
  /\ exec = "resolved"
  /\ LET d == Dispatch(reqPc)
     IN /\ reqPc' = d.pc
        /\ routeCalls' = d.calls
        /\ routeRan' = (d.pc # "onRequestEnd")
        /\ defaultRan' = (d.pc = "default")
        /\ endRan' = (d.pc = "onRequestEnd")
  /\ UNCHANGED <<middlewares, invs, mwIndex, exec, execErr, unhandled, status,
                 customRoutes, request, headersSent, failedStep,
                 hookVars, mqVars, evVars, cfgVars, ledgerVars, fastifyVars,
                 startVars>>

\* The awaited route handler, or the default handler, settles; when it
\* resolves the run of onRequestEnd is started
routeSettles(ok) ==
  /\ reqPc \in {"route", "default"}
  /\ reqPc = "route" => ok = (customRoutes[routeCalls[1]].kind = "ok")
  /\ IF ok
     THEN /\ headersSent' = TRUE
          /\ endRan' = TRUE
          /\ reqPc' = "onRequestEnd"
          /\ UNCHANGED <<status, failedStep>>
     ELSE /\ status' = 500
          /\ headersSent' = TRUE
          /\ failedStep' = reqPc
          /\ reqPc' = "failed"
          /\ UNCHANGED endRan
  /\ UNCHANGED <<middlewares, invs, mwIndex, exec, execErr, unhandled,
                 routeRan, customRoutes, request, routeCalls, defaultRan,
                 hookVars, mqVars, evVars, cfgVars, ledgerVars, fastifyVars,
                 startVars>>

\* await hookSystem.run('onRequestEnd', ...) settles
onRequestEnd(ok) ==
  /\ reqPc = "onRequestEnd"
  /\ IF ok
     THEN /\ reqPc' = "done"
          /\ UNCHANGED <<status, headersSent, failedStep>>
     ELSE /\ status' = 500
          /\ headersSent' = TRUE
          /\ failedStep' = "onRequestEnd"
          /\ reqPc' = "failed"
  /\ UNCHANGED <<middlewares, invs, mwIndex, exec, execErr, unhandled,
                 routeRan, endRan, customRoutes, request, routeCalls,
                 defaultRan, hookVars, mqVars, evVars, cfgVars, ledgerVars,
                 fastifyVars, startVars>>

\* catch (err) { res.statusCode = 500; res.end(...) } after a rejected
\* run of onRequestStart or a rejected executeMiddlewares
requestError ==
  /\ \/ reqPc = "onRequestStart"
     \/ reqPc = "middlewares" /\ exec = "rejected"
  /\ status' = 500
  /\ headersSent' = TRUE
  /\ failedStep' = reqPc
  /\ reqPc' = "failed"
  /\ UNCHANGED <<middlewares, invs, mwIndex, exec, execErr, unhandled,
                 routeRan, endRan, customRoutes, request, routeCalls,
                 defaultRan, hookVars, mqVars, evVars, cfgVars, ledgerVars,
                 fastifyVars, startVars>>

InitMw ==
  /\ middlewares = <<>>
  /\ invs = <<>>
  /\ mwIndex = 0
  /\ exec = "idle"
  /\ execErr = 0
  /\ unhandled = FALSE
  /\ reqPc = "idle"
  /\ status = 200
  /\ routeRan = FALSE
  /\ endRan = FALSE
  /\ customRoutes = <<>>
  /\ request = NoRequest
  /\ headersSent = FALSE
  /\ routeCalls = <<>>
  /\ defaultRan = FALSE
  /\ failedStep = "none"

(***************************************************************************)
(* The registration ledger of the kernel: addHook, applyHooks, addEvent,   *)
(* applyEvents                                                             *)
(***************************************************************************)
RECURSIVE SumLen(_, _)
SumLen(map, keys) ==
  IF keys = <<>> THEN 0 ELSE Len(map[Head(keys)]) + SumLen(map, Tail(keys))

\* The entries of both ledgers
LedgerSize == SumLen(hookMap, hookKeys) + SumLen(eventMap, eventKeys)

\* if (!map[name]) { map[name] = [] }; map[name].push(handler)
AddEntry(map, name, handler) == [map EXCEPT ![name] = Append(@, handler)]
AddKey(keys, name) ==
  IF \E i \in 1..Len(keys) : keys[i] = name THEN keys ELSE Append(keys, name)

\* The handlers of a name are registered from the last to the first
RegisterEachReversed(live, handlers, name) ==
  [live EXCEPT ![name] =
     @ \o [i \in 1..Len(handlers) |-> handlers[Len(handlers) + 1 - i]]]

\* for (const handler of map[name]) { live.register(name, handler) }
RegisterEach(live, handlers, name) == [live EXCEPT ![name] = @ \o handlers]

RECURSIVE ApplyLedger(_, _, _)
\* for (const name in map) { ... }: the keys in the order they were created
ApplyLedger(live, map, keys) ==
  IF keys = <<>> THEN live
  ELSE ApplyLedger(RegisterEach(live, map[Head(keys)], Head(keys)), map,
                   Tail(keys))

addHook(hookName, handler) ==
  /\ LedgerSize < MaxLedger
  /\ hookMap' = AddEntry(hookMap, hookName, handler)
  /\ hookKeys' = AddKey(hookKeys, hookName)
  /\ UNCHANGED <<eventMap, eventKeys, applied,
                 hookVars, mqVars, evVars, cfgVars, mwVars, fastifyVars, startVars, reqVars>>

applyHooks ==
  /\ applied.hooks + applied.events < MaxApplies
  /\ hooks' = ApplyLedger(hooks, hookMap, hookKeys)
  /\ regCount' = regCount + SumLen(hookMap, hookKeys)
  /\ applied' = [applied EXCEPT !.hooks = @ + 1]
  /\ UNCHANGED <<runs, hookMap, hookKeys, eventMap, eventKeys,
                 mqVars, evVars, cfgVars, mwVars, fastifyVars, startVars, reqVars>>

addEvent(eventName, handler) ==
  /\ LedgerSize < MaxLedger
  /\ eventMap' = AddEntry(eventMap, eventName, handler)
  /\ eventKeys' = AddKey(eventKeys, eventName)
  /\ UNCHANGED <<hookMap, hookKeys, applied,
                 hookVars, mqVars, evVars, cfgVars, mwVars, fastifyVars, startVars, reqVars>>

applyEvents ==
  /\ applied.hooks + applied.events < MaxApplies
  /\ listeners' = ApplyLedger(listeners, eventMap, eventKeys)
  /\ offed' = [t \in AllTopics |->
                 IF t \in Topics
                 THEN offed[t] \ {eventMap[t][i] : i \in 1..Len(eventMap[t])}
                 ELSE offed[t]]
  /\ lastOp' = IF eventKeys = <<>> THEN lastOp
               ELSE LET t == eventKeys[Len(eventKeys)]
                        hs == eventMap[t]
                    IN [NoOp EXCEPT !.op = "on", !.topic = t, !.l = hs[Len(hs)],
                                    !.before = [listeners' EXCEPT ![t] =
                                                  SubSeq(@, 1, Len(@) - 1)]]
  /\ applied' = [applied EXCEPT !.events = @ + 1]
  /\ UNCHANGED <<hookMap, hookKeys, eventMap, eventKeys,
                 hookVars, mqVars, cfgVars, mwVars, fastifyVars, startVars, reqVars>>

InitLedger ==
  /\ hookMap = [s \in Stages |-> <<>>]
  /\ hookKeys = <<>>
  /\ eventMap = [t \in Topics |-> <<>>]
  /\ eventKeys = <<>>
  /\ applied = [hooks |-> 0, events |-> 0]

(***************************************************************************)
(* The Fastify middleware list: fastifyUse, executeFastifyMiddlewares      *)
(***************************************************************************)
\* The middlewares a module can register, by the calls of done they make
\* after they were invoked (0: done(), k > 0: done(err) with the error of
\* middleware k):
\*   ok     (req, reply, done) => { later(() => done()) }
\*   err    (req, reply, done) => { later(() => done(e)) }
\*   never  (req, reply, done) => { }
\*   asyncThrow  async (req, reply, done) => { throw e }
\*   throw  (req, reply, done) => { throw e }
\*   okErr  (req, reply, done) => { later(() => { done(); done(e) }) }
\*   errOk  (req, reply, done) => { later(() => { done(e); done() }) }
FmwKinds == {"ok", "err", "never", "asyncThrow", "throw", "okErr", "errOk"}
\* A middleware that returns has called done()
DoneCallsOnReturn(kind, k) ==
  CASE kind \in {"ok", "never", "asyncThrow"} -> <<0>>
    [] kind = "err" -> <<k>>
    [] kind = "okErr" -> <<0, k>>
    [] kind = "errOk" -> <<k, 0>>
    [] OTHER -> <<>>

DoneCalls(kind, k) ==
  CASE kind = "ok" -> <<0>>
    [] kind = "err" -> <<k>>
    [] kind = "okErr" -> <<0, k>>
    [] kind = "errOk" -> <<k, 0>>
    [] OTHER -> <<>>

FState == [idx |-> fIdx, state |-> fState, err |-> fErr, log |-> fLog,
           script |-> fScript]

\* The loop reaches the next middleware, or its end
\* new Promise((resolve, reject) => { middleware(request, reply, done) })
InvokeNext(fs) ==
  IF fs.idx = Len(fastifyMiddlewareList)
  THEN [fs EXCEPT !.state = "resolved"]
  ELSE LET k == fs.idx + 1
           kind == fastifyMiddlewareList[k]
           started == [fs EXCEPT !.idx = k,
                                 !.log = Append(@, [ev |-> "start", mw |-> k,
                                                    err |-> 0]),
                                 !.script[k] = DoneCalls(kind, k)]
       IN IF kind = "throw"
          THEN [started EXCEPT !.state = "rejected", !.err = k]
          ELSE IF kind = "asyncThrow"
          THEN [started EXCEPT !.log = Append(@, [ev |-> "unhandled", mw |-> k,
                                                  err |-> k])]
          ELSE started

\* done(err) resolves the promise also when err is given
DoneSettlesResolve(fs, k, e) ==
  IF fs.state = "pending" /\ fs.idx = k THEN InvokeNext(fs) ELSE fs

\* (err) => { if (err) { reject(err) } else { resolve(null) } }: the promise
\* of middleware k settles with the first call, and the loop goes on or the
\* rejection leaves executeFastifyMiddlewares
DoneSettles(fs, k, e) ==
  IF fs.state = "pending" /\ fs.idx = k
  THEN IF e # 0 THEN [fs EXCEPT !.state = "rejected", !.err = e]
       ELSE InvokeNext(fs)
  ELSE fs

SetFastify(fs) ==
  /\ fIdx' = fs.idx
  /\ fState' = fs.state
  /\ fErr' = fs.err
  /\ fLog' = fs.log
  /\ fScript' = fs.script

fastifyUse(kind) ==
  /\ fState = "idle"
  /\ Len(fastifyMiddlewareList) < MaxFmw
  /\ fastifyMiddlewareList' = Append(fastifyMiddlewareList, kind)
  /\ UNCHANGED <<fIdx, fState, fErr, fLog, fScript,
                 hookVars, mqVars, evVars, cfgVars, mwVars, ledgerVars, startVars, reqVars>>

executeFastifyMiddlewares ==
  /\ fState = "idle"
  /\ SetFastify(InvokeNext([FState EXCEPT !.state = "pending"]))
  /\ UNCHANGED <<fastifyMiddlewareList,
                 hookVars, mqVars, evVars, cfgVars, mwVars, ledgerVars, startVars, reqVars>>

\* The middleware k makes its next call of done
doneCalled(k) ==
  /\ k \in 1..fIdx
  /\ fScript[k] # <<>>
  /\ LET e == Head(fScript[k])
         called == [FState EXCEPT !.script[k] = Tail(@),
                                  !.log = Append(@, [ev |-> "done", mw |-> k,
                                                     err |-> e])]
     IN SetFastify(DoneSettles(called, k, e))
  /\ UNCHANGED <<fastifyMiddlewareList,
                 hookVars, mqVars, evVars, cfgVars, mwVars, ledgerVars, startVars, reqVars>>

InitFastify ==
  /\ fastifyMiddlewareList = <<>>
  /\ fIdx = 0
  /\ fState = "idle"
  /\ fErr = 0
  /\ fLog = <<>>
  /\ fScript = [k \in 1..MaxFmw |-> <<>>]

(***************************************************************************)
(* startServer: the lifecycle stages around the HTTP listener              *)
(***************************************************************************)
NoExit == -1

StartState == [pc |-> startPc, stagesRun |-> stagesRun, emitted |-> emitted,
               listenCalled |-> listenCalled, bound |-> bound,
               processOn |-> processOn, exitCode |-> exitCode,
               failedAt |-> failedAt]

\* catch (err) { } : the failure is swallowed and startServer returns
CatchSwallow(ss, step) == [ss EXCEPT !.failedAt = step, !.pc = "returned"]

\* catch (err) { eventSystem.emit('serverError', err); process.exit(1) }
\* A serverError listener that throws leaves the catch block before exit:
\* the promise of startServer() is rejected and nobody handles it.  Before
\* process.on('unhandledRejection') is installed the runtime ends the
\* process with code 1; afterwards the installed handler logs the rejection.
Catch(ss, step) ==
  LET res == EmitterEmit("serverError", listeners["serverError"])
      emitting == [ss EXCEPT !.failedAt = step,
                             !.emitted = Append(@, "serverError")]
  IN IF ~res.threw \/ ~ss.processOn
     THEN [emitting EXCEPT !.pc = "exited", !.exitCode = 1]
     ELSE [emitting EXCEPT !.pc = "rejected"]

SetStart(ss) ==
  /\ startPc' = ss.pc
  /\ stagesRun' = ss.stagesRun
  /\ emitted' = ss.emitted
  /\ listenCalled' = ss.listenCalled
  /\ bound' = ss.bound
  /\ processOn' = ss.processOn
  /\ exitCode' = ss.exitCode
  /\ failedAt' = ss.failedAt

\* startServer() up to await hookSystem.run('beforeServerStart', ...)
startServer ==
  /\ startPc = "idle"
  /\ SetStart([StartState EXCEPT !.pc = "beforeServerStart",
                                 !.stagesRun = <<"beforeServerStart">>])
  /\ UNCHANGED <<hookVars, mqVars, evVars, cfgVars, mwVars, ledgerVars,
                 fastifyVars, reqVars>>

\* The awaited run of a lifecycle stage resolves (ok) or rejects
StageSettles(ok) ==
  /\ startPc \in {"beforeServerStart", "afterServerCreated", "serverReady"}
  /\ exitCode = NoExit
  /\ SetStart(
       IF ~ok THEN Catch(StartState, startPc)
       ELSE CASE startPc = "beforeServerStart" -> [StartState EXCEPT !.pc = "prepare"]
              [] startPc = "afterServerCreated" ->
                   [StartState EXCEPT !.pc = "serverReady",
                                      !.listenCalled = TRUE,
                                      !.processOn = TRUE,
                                      !.stagesRun = Append(@, "serverReady")]
              [] OTHER -> [StartState EXCEPT !.pc = "started"])
  /\ UNCHANGED <<hookVars, mqVars, evVars, cfgVars, mwVars, ledgerVars,
                 fastifyVars, reqVars>>

\* await app.prepare() settles; createServer and the afterServerCreated run
appPrepared(ok) ==
  /\ startPc = "prepare"
  /\ exitCode = NoExit
  /\ SetStart(
       IF ~ok THEN Catch(StartState, "prepare")
       ELSE [StartState EXCEPT !.pc = "afterServerCreated",
                               !.stagesRun = Append(@, "afterServerCreated")])
  /\ UNCHANGED <<hookVars, mqVars, evVars, cfgVars, mwVars, ledgerVars,
                 fastifyVars, reqVars>>

\* The callback of server.listen: the listener is bound
listenCallback ==
  /\ listenCalled
  /\ ~bound
  /\ exitCode = NoExit
  /\ LET res == EmitterEmit("serverStarted", listeners["serverStarted"])
     IN SetStart([StartState EXCEPT
                    !.bound = TRUE,
                    !.emitted = Append(@, "serverStarted"),
                    !.stagesRun = IF res.threw THEN @
                                  ELSE Append(@, "afterServerStarted")])
  /\ UNCHANGED <<hookVars, mqVars, evVars, cfgVars, mwVars, ledgerVars,
                 fastifyVars, reqVars>>

\* eventSystem.on(topic, l) of a module, before startServer is called
onBeforeStart(topic, l) ==
  /\ startPc = "idle"
  /\ on(topic, l)

InitStart ==
  /\ startPc = "idle"
  /\ stagesRun = <<>>
  /\ emitted = <<>>
  /\ listenCalled = FALSE
  /\ bound = FALSE
  /\ processOn = FALSE
  /\ exitCode = NoExit
  /\ failedAt = "none"

(***************************************************************************)
(* Specifications                                                          *)
(***************************************************************************)
Init == InitHook /\ InitMQ /\ InitEvent /\ InitConfigNone /\ InitMw /\ InitLedger
          /\ InitFastify /\ InitStart

NextHook ==
  \/ \E s \in Stages, h \in Handlers : register(s, h)
  \/ \E r \in RunIds, s \in Stages : run(r, s)
  \/ \E r \in RunIds : HandlerSettles(r)

NextMQ ==
  \/ \E k \in TaskKinds, p \in TaskIds \cup {0} : enqueue(k, p)
  \/ \E t \in TaskIds, ok \in BOOLEAN : TaskSettles(t, ok)

NextEvent ==
  \/ \E t \in Topics, l \in Listeners : on(t, l)
  \/ \E t \in Topics, l \in Listeners : off(t, l)
  \/ \E t \in Topics : emit(t)

SpecHook == Init /\ [][NextHook]_vars
SpecMQ == Init /\ [][NextMQ]_vars
\* Every executing task settles, by success or by failure
LiveSpecMQ == SpecMQ /\ WF_vars(\E t \in TaskIds, ok \in BOOLEAN : TaskSettles(t, ok))
SpecEvent == Init /\ [][NextEvent]_vars

NextConfig ==
  \/ ParseLines
  \/ ResolvePass
  \/ StoreKey
  \/ MergeToml
  \/ \E path \in Paths : getConfig(path)

\* The module is loaded with some environment file and TOML document
InitLoaded ==
  /\ InitHook
  /\ InitMQ
  /\ InitEvent
  /\ InitConfig
  /\ InitMw
  /\ InitLedger
  /\ InitFastify
  /\ InitStart

SpecConfig == InitLoaded /\ [][NextConfig]_vars
\* The module-level code runs to its end unless a loop does not terminate
LiveSpecConfig ==
  SpecConfig /\ WF_vars(ParseLines) /\ WF_vars(ResolvePass)
             /\ WF_vars(StoreKey) /\ WF_vars(MergeToml)

\* One request without custom routes
NextMw ==
  \/ \E k \in MwKinds : use(k)
  \/ requestArrives("GET", <<>>)
  \/ executeMiddlewares
  \/ \E c \in 1..MaxMw : MiddlewareActs(c)
  \/ routeDispatch
  \/ \E ok \in BOOLEAN : routeSettles(ok)
  \/ \E ok \in BOOLEAN : onRequestEnd(ok)
  \/ requestError

SpecMw == Init /\ [][NextMw]_vars

\* The middlewares of the request handler's specification
ReqMwKinds == {"pass", "stop", "respond", "fail", "fire"}

NextRequest ==
  \/ \E k \in ReqMwKinds : use(k)
  \/ \E tpl \in Templates, k \in RouteKinds : route(tpl, k)
  \/ \E m \in Methods, p \in Pathnames : requestArrives(m, p)
  \/ executeMiddlewares
  \/ \E c \in 1..MaxMw : MiddlewareActs(c)
  \/ routeDispatch
  \/ \E ok \in BOOLEAN : routeSettles(ok)
  \/ \E ok \in BOOLEAN : onRequestEnd(ok)
  \/ requestError

SpecRequest == Init /\ [][NextRequest]_vars
\* Every awaited step of the request handler and every middleware settles
LiveSpecRequest ==
  SpecRequest /\ WF_vars(executeMiddlewares)
              /\ WF_vars(\E c \in 1..MaxMw : MiddlewareActs(c))
              /\ WF_vars(routeDispatch)
              /\ WF_vars(\E ok \in BOOLEAN : routeSettles(ok))
              /\ WF_vars(\E ok \in BOOLEAN : onRequestEnd(ok))

NextLedger ==
  \/ \E s \in Stages, h \in Handlers : addHook(s, h)
  \/ applyHooks
  \/ \E t \in Topics, l \in Listeners : addEvent(t, l)
  \/ applyEvents

SpecLedger == Init /\ [][NextLedger]_vars

\* The ledger together with the operations of the live components,
\* for one run of a stage and the emits of serverStarted
NextLedgerLive ==
  \/ \E s \in Stages, h \in ListHandlers : addHook(s, h)
  \/ applyHooks
  \/ \E l \in Listeners : addEvent("serverStarted", l)
  \/ applyEvents
  \/ \E s \in Stages : run(1, s)
  \/ HandlerSettles(1)
  \/ emit("serverStarted")

SpecLedgerLive == Init /\ [][NextLedgerLive]_vars

NextFastify ==
  \/ \E k \in FmwKinds : fastifyUse(k)
  \/ executeFastifyMiddlewares
  \/ \E k \in 1..MaxFmw : doneCalled(k)

SpecFastify == Init /\ [][NextFastify]_vars

NextStart ==
  \/ \E t \in {"serverStarted", "serverError"}, l \in Listeners : onBeforeStart(t, l)
  \/ startServer
  \/ \E ok \in BOOLEAN : StageSettles(ok)
  \/ \E ok \in BOOLEAN : appPrepared(ok)
  \/ listenCallback

SpecStart == Init /\ [][NextStart]_vars

(***************************************************************************)
(* HookSystem.run                                                          *)
(***************************************************************************)
AllList(hs) == \A i \in 1..Len(hs) : hs[i] \in ListHandlers

RECURSIVE Pipe(_, _)
\* hn(...h_(n-1)(...h1(...a)))
Pipe(hs, v) ==
  IF hs = <<>> THEN v ELSE Pipe(Tail(hs), Apply(Head(hs), v.items).val)

CalledHandlers(rs) == [i \in 1..Len(rs.calls) |-> rs.calls[i].h]

C1_Inv ==
  \A r \in RunIds :
    LET rs == runs[r]
        cbs == Callbacks(rs, hooks)
    IN /\ (rs.pc # "idle" /\ ~rs.live) =>
            (rs.pc = "resolved" /\ rs.out = List(rs.args) /\ rs.calls = <<>>)
       /\ (rs.pc # "idle" /\ AllList(hooks[rs.stage])) =>
            /\ rs.pc # "rejected"
            /\ Len(rs.calls) <= Len(cbs)
            /\ \A i \in 1..Len(rs.calls) :
                 /\ rs.calls[i].h = cbs[i]
                 /\ rs.calls[i].args =
                      IF i = 1 THEN rs.args
                      ELSE Apply(rs.calls[i - 1].h, rs.calls[i - 1].args).val.items
            /\ rs.settled <= Len(rs.calls)
            /\ Len(rs.calls) - rs.settled <= 1
            /\ (rs.pc = "awaiting") = (Len(rs.calls) - rs.settled = 1)
            /\ rs.pc = "resolved" =>
                 rs.out = Pipe(CalledHandlers(rs), List(rs.args))

C1_Step ==
  \A r \in RunIds :
    (runs[r].pc # "resolved" /\ runs'[r].pc = "resolved"
       /\ AllList(hooks'[runs'[r].stage]))
    => Len(runs'[r].calls) = Len(Callbacks(runs'[r], hooks'))

\* C1: with handlers that return lists and do not throw, run calls h1 with the
\* original arguments and each later handler with the list its predecessor
\* returned, one handler at a time, and resolves with the last handler's
\* value once every handler of the stage has run; with no handler registered
\* it resolves with the original argument list.
C1_Pipeline == [](C1_Inv) /\ [][C1_Step]_vars

C1_Witness ==
  \E r \in RunIds :
    /\ runs[r].pc = "resolved"
    /\ AllList(hooks[runs[r].stage])
    /\ Len(runs[r].calls) >= 2
    /\ runs[r].calls[1].h # runs[r].calls[2].h

\* C2: when the k-th handler of a run has thrown, the run is rejected with
\* that handler's error and no handler after the k-th has been invoked.
C2_ThrowAborts ==
  \A r \in RunIds :
    LET rs == runs[r] IN
    \A i \in 1..rs.settled :
      ~Apply(rs.calls[i].h, rs.calls[i].args).ok =>
        /\ rs.pc = "rejected"
        /\ rs.out = Apply(rs.calls[i].h, rs.calls[i].args).val
        /\ Len(rs.calls) = i

C2_Witness ==
  \E r \in RunIds :
    /\ runs[r].pc = "rejected"
    /\ runs[r].out = HandlerError
    /\ Len(runs[r].calls) >= 2
    /\ Len(runs[r].calls) < Len(hooks[runs[r].stage])
    /\ runs[r].n0 = Len(hooks[runs[r].stage])

\* C3: a run with the context {count: 0} on a stage that holds two handlers,
\* each returning {count: received count + 1}, yields {count: 2}.
C3_CountTwice ==
  \A r \in RunIds :
    LET rs == runs[r] IN
    (/\ rs.pc \in {"resolved", "rejected"}
     /\ rs.n0 = 2
     /\ SubSeq(hooks[rs.stage], 1, 2) = <<"count", "count">>
     /\ Len(hooks[rs.stage]) = 2
     /\ rs.args = <<Rec(0)>>)
    => (rs.pc = "resolved" /\ rs.out = Rec(2))

(***************************************************************************)
(* MessageQueue                                                            *)
(***************************************************************************)
Settled(t) == taskState[t] \in {"ok", "failed"}
Occurrences(q, t) == Cardinality({i \in 1..Len(q) : q[i] = t})

\* C4: at most one drain loop and one executing task at any moment, tasks
\* start in the order of their enqueue calls, and a task starts only after
\* the task before it has settled.
C4_SerialFifo ==
  /\ Cardinality(loops) <= 1
  /\ Cardinality(executing) <= 1
  /\ Len(startOrder) <= Len(enqOrder)
  /\ startOrder = SubSeq(enqOrder, 1, Len(startOrder))
  /\ \A i \in 1..(Len(startOrder) - 1) : Settled(startOrder[i])

C4_Witness ==
  \E t \in TaskIds :
    /\ parentOf[t] # 0
    /\ taskState[t] = "running"
    /\ Len(startOrder) >= 3

C5_Inv ==
  /\ \A t \in TaskIds : callState[t] # "rejected"
  /\ \A i \in 1..Len(startOrder) :
       taskState[startOrder[i]] = "failed" =>
         \/ i < Len(startOrder)
         \/ (queue = <<>> /\ ~processing)

\* C5: a failing task rejects no enqueue call and does not stop the drain
\* loop: the loop goes on with the next pending task, and every task still
\* pending when a task has failed is executed.
C5_FailureSurvived ==
  /\ [](C5_Inv)
  /\ \A t \in TaskIds, u \in TaskIds :
       (taskState[t] = "failed" /\ taskState[u] = "queued") ~> (execCount[u] = 1)

C5_Witness ==
  \E i \in 1..Len(startOrder), j \in 1..Len(startOrder) :
    /\ i < j
    /\ taskState[startOrder[i]] = "failed"
    /\ taskKind[startOrder[i]] = "async"
    /\ taskState[startOrder[j]] = "ok"

C6_Inv ==
  \A t \in TaskIds :
    /\ execCount[t] <= 1
    /\ Occurrences(startOrder, t) = execCount[t]
    /\ taskState[t] # "new" =>
         Occurrences(queue, t) + Occurrences(startOrder, t) = 1
    /\ taskState[t] = "new" =>
         Occurrences(queue, t) + Occurrences(startOrder, t) = 0

\* C6: every enqueued task is dequeued and executed exactly once, and a
\* pending task is eventually executed when the tasks ahead of it settle.
C6_ExactlyOnce ==
  /\ [](C6_Inv)
  /\ \A t \in TaskIds : (taskState[t] = "queued") ~> (execCount[t] = 1)

C6_Witness ==
  /\ \A t \in TaskIds : Settled(t) /\ execCount[t] = 1
  /\ \E t \in TaskIds : taskState[t] = "failed"
  /\ ~processing

\* C7: when the processing flag is false no task is pending, and a pending
\* task always has a running drain loop that will pick it up.
C7_NoStrandedTask ==
  /\ ~processing => (queue = <<>> /\ \A t \in TaskIds : taskState[t] # "queued")
  /\ queue # <<>> => (processing /\ Cardinality(loops) = 1)

C7_Witness ==
  /\ ~processing
  /\ \E t \in TaskIds :
       /\ parentOf[t] # 0
       /\ Settled(t)
       /\ callState[t] = "resolved"
       /\ callState[parentOf[t]] = "resolved"

(***************************************************************************)
(* EventSystem                                                             *)
(***************************************************************************)
Range(q) == {q[i] : i \in 1..Len(q)}

\* C8: emit invokes every listener registered on the topic exactly once, in
\* registration order, also when an earlier listener throws.
C8_EveryListenerInvoked ==
  lastOp.op = "emit" => lastOp.invoked = listeners[lastOp.topic]

\* C9: an emit on a topic that has listeners returns to its caller, also
\* when a listener throws.
C9_EmitReturns ==
  (lastOp.op = "emit" /\ listeners[lastOp.topic] # <<>>) => ~lastOp.threw

\* C10 as stated: after off(topic, l), an emit on topic does not invoke l.
C10_OffSilences ==
  lastOp.op = "emit" =>
    \A l \in offed[lastOp.topic] : l \notin Range(lastOp.invoked)

\* C10: off(topic, l) removes the most recently registered occurrence of l
\* from topic's list and nothing else, so a listener registered once is not
\* invoked by later emits; off of a listener that is not registered changes
\* no list; emit invokes only listeners that are registered.
C10_OffRemovesLastOccurrence ==
  /\ lastOp.op = "off" =>
       LET b == lastOp.before[lastOp.topic]
           a == listeners[lastOp.topic]
           l == lastOp.l
       IN /\ \A u \in Topics \ {lastOp.topic} : listeners[u] = lastOp.before[u]
          /\ l \notin Range(b) => a = b
          /\ l \in Range(b) =>
               \E i \in 1..Len(b) :
                 /\ b[i] = l
                 /\ \A j \in (i + 1)..Len(b) : b[j] # l
                 /\ Len(a) = Len(b) - 1
                 /\ \A j \in 1..(i - 1) : a[j] = b[j]
                 /\ \A j \in i..Len(a) : a[j] = b[j + 1]
          /\ Occurrences(b, l) = 1 => l \notin Range(a)
  /\ lastOp.op = "emit" =>
       /\ Len(lastOp.invoked) <= Len(listeners[lastOp.topic])
       /\ \A i \in 1..Len(lastOp.invoked) :
            lastOp.invoked[i] = listeners[lastOp.topic][i]

C10_Witness ==
  /\ lastOp.op = "off"
  /\ LET b == lastOp.before[lastOp.topic] IN
       /\ Len(b) = 3
       /\ b[1] = lastOp.l
       /\ b[2] # lastOp.l
       /\ b[3] = lastOp.l

(***************************************************************************)
(* Configuration                                                           *)
(***************************************************************************)
\* C11: getConfig returns the value stored at the path when every segment is
\* present in the merged mapping, and the empty string otherwise.
C11_LookupOrEmpty ==
  lastGet.done =>
    lastGet.result =
      IF \E e \in configMerged : e.path = lastGet.path
      THEN (CHOOSE e \in configMerged : e.path = lastGet.path).val
      ELSE IF \E e \in configMerged : IsPrefix(lastGet.path, e.path)
           THEN CfgMap(lastGet.path)
           ELSE EmptyString

RECURSIVE Expand(_, _)
\* The value with every reference replaced by the expansion of its key
Expand(v, env) ==
  IF v = <<>> THEN <<>>
  ELSE (IF Head(v) \in RefTokens /\ env[RefKey(Head(v))] # <<>>
        THEN Expand(env[RefKey(Head(v))], env)
        ELSE <<Head(v)>>) \o Expand(Tail(v), env)

\* C12: a top-level key defined in the environment file holds the
\* environment file's value in the merged configuration, also when the TOML
\* document defines the key too.
C12_EnvironmentWins ==
  cfgPc = "ready" =>
    \A i \in 1..Len(keyOrder) :
      [path |-> <<keyOrder[i]>>,
       val |-> CfgStr(Expand(tempEnv[keyOrder[i]], tempEnv))] \in configMerged

\* C13: parseEnv terminates on every environment file.
C13_ParseEnvTerminates == <>(cfgPc \in {"envDone", "ready"})

RECURSIVE Resolvable(_, _, _)
\* Every reference of v names a defined key, down to depth d
Resolvable(v, env, d) ==
  \A i \in 1..Len(v) :
    v[i] \in RefTokens =>
      /\ d > 0
      /\ env[RefKey(v[i])] # <<>>
      /\ Resolvable(env[RefKey(v[i])], env, d - 1)

AllResolvable ==
  \A k \in EnvKeys :
    Resolvable(TempEnvOf(envFile)[k], TempEnvOf(envFile), Cardinality(EnvKeys))

C14_Inv ==
  cfgPc \in {"resolving", "envDone"} =>
    \A e \in configMerged :
      /\ ~HasRef(e.val.s)
      /\ e.val = CfgStr(Expand(tempEnv[e.path[1]], tempEnv))

C14_AllStored ==
  /\ cfgPc = "envDone"
  /\ \A i \in 1..Len(keyOrder) :
       [path |-> <<keyOrder[i]>>,
        val |-> CfgStr(Expand(tempEnv[keyOrder[i]], tempEnv))] \in configMerged

\* C14: a stored value holds no reference and is the complete expansion of
\* its line, and a file whose references all name keys defined in the file
\* is resolved completely, whatever the order of its lines.
C14_ReferencesResolved ==
  /\ [](C14_Inv)
  /\ (AllResolvable => <>(C14_AllStored))

C14_Witness ==
  /\ cfgPc = "envDone"
  /\ keyOrder = <<"C", "B", "A">>
  /\ [path |-> <<"C">>, val |-> CfgStr(<<"1", "2", "3">>)] \in configMerged
  /\ [path |-> <<"B">>, val |-> CfgStr(<<"1", "2">>)] \in configMerged

(***************************************************************************)
(* executeMiddlewares                                                      *)
(***************************************************************************)
InvSettled(c) == invs[c].phase \in {"returned", "threw"}

\* A stop or respond middleware has returned: it never invoked its
\* continuation
ShortCircuited(c) ==
  /\ c \in 1..Len(invs)
  /\ middlewares[invs[c].mw] \in {"stop", "respond"}
  /\ invs[c].phase = "returned"

\* C15 as stated: once a middleware has returned without invoking its
\* continuation, no middleware registered after it has been invoked for the
\* request, and executeMiddlewares resolves when the invoked middlewares
\* have settled.
C15_ShortCircuitStopsChain ==
  \A c \in 1..Len(invs) :
    ShortCircuited(c) =>
      /\ \A d \in 1..Len(invs) : invs[d].mw <= invs[c].mw
      /\ (\A d \in 1..Len(invs) : InvSettled(d)) => exec = "resolved"

\* C15, amended: once a middleware has returned without invoking its
\* continuation, and no middleware registered before it invokes its
\* continuation more than once, no middleware registered after it has been
\* invoked; executeMiddlewares has settled when the invoked middlewares
\* have, and it has resolved unless one of them threw.
C15_ShortCircuit ==
  \A c \in 1..Len(invs) :
    ShortCircuited(c) =>
      /\ (\A j \in 1..(invs[c].mw - 1) : middlewares[j] # "twice")
           => \A d \in 1..Len(invs) : invs[d].mw <= invs[c].mw
      /\ (\A d \in 1..Len(invs) : InvSettled(d))
           => \/ exec = "resolved"
              \/ /\ exec = "rejected"
                 /\ \E d \in 1..Len(invs) : invs[d].phase = "threw"

\* A middleware short-circuited with a later one registered, and
\* executeMiddlewares resolved
C15_Witness ==
  /\ \E c \in 1..Len(invs) : ShortCircuited(c) /\ invs[c].mw < Len(middlewares)
  /\ Len(invs) = 2
  /\ exec = "resolved"

\* C16 as stated: when every middleware invokes its continuation exactly
\* once and executeMiddlewares has resolved, every middleware has been
\* invoked, in registration order, and has finished.
C16_ResolvesAfterAll ==
  (/\ exec = "resolved"
   /\ \A k \in 1..Len(middlewares) : middlewares[k] \in {"pass", "fire"})
    => /\ Len(invs) = Len(middlewares)
       /\ \A c \in 1..Len(invs) : invs[c].mw = c /\ invs[c].phase = "returned"

\* C17 as stated: when a middleware has thrown, executeMiddlewares is
\* rejected with that error, no route handler and no onRequestEnd hook has
\* run, and the response status is 500 once the request handler has caught
\* the rejection.
C17_ThrowRejects ==
  \A c \in 1..Len(invs) :
    invs[c].phase = "threw" =>
      /\ exec = "rejected"
      /\ execErr = invs[c].err
      /\ ~routeRan
      /\ ~endRan
      /\ reqPc \in {"middlewares", "failed"}
      /\ reqPc = "failed" => status = 500

(***************************************************************************)
(* The registration ledger                                                 *)
(***************************************************************************)
\* C18 as stated: each ledger entry is registered into the live HookSystem
\* and EventSystem at most once, however often the ledger is applied: no
\* live list is longer than the ledger's list for the same name.
C18_RegisteredOnce ==
  /\ \A s \in Stages : Len(hooks[s]) <= Len(hookMap[s])
  /\ \A t \in Topics : Len(listeners[t]) <= Len(eventMap[t])

FreshHooks == \A s \in Stages : hooks[s] = <<>>
FreshEvents == \A t \in Topics : listeners[t] = <<>>

\* C19: applyHooks on a HookSystem without handlers leaves, for every stage,
\* the handlers of the ledger in the order of the addHook calls, and
\* applyEvents on an EventSystem without listeners leaves, for every topic,
\* the listeners of the ledger in the order of the addEvent calls.
C19_ApplyCopiesLedger ==
  [][/\ (applied'.hooks = applied.hooks + 1 /\ FreshHooks)
          => \A s \in Stages : hooks'[s] = hookMap[s]
     /\ (applied'.events = applied.events + 1 /\ FreshEvents)
          => \A t \in Topics : listeners'[t] = eventMap[t]]_vars

\* Both ledgers were applied once to fresh components, and a name holds two
\* different handlers in the order they were added
C19_Witness ==
  /\ applied = [hooks |-> 1, events |-> 1]
  /\ hooks = hookMap
  /\ \A t \in Topics : listeners[t] = eventMap[t]
  /\ \/ \E s \in Stages : Len(hooks[s]) >= 2 /\ hooks[s][1] # hooks[s][2]
     \/ \E t \in Topics : Len(listeners[t]) >= 2 /\ listeners[t][1] # listeners[t][2]

(***************************************************************************)
(* executeFastifyMiddlewares                                               *)
(***************************************************************************)
\* The position in the log of the invocation of middleware k, 0 if none
StartPos(k) ==
  LET P == {p \in 1..Len(fLog) : fLog[p].ev = "start" /\ fLog[p].mw = k}
  IN IF P = {} THEN 0 ELSE CHOOSE p \in P : \A q \in P : p <= q

\* The position in the log of the first call of done by middleware k
FirstDone(k) ==
  LET P == {p \in 1..Len(fLog) : fLog[p].ev = "done" /\ fLog[p].mw = k}
  IN IF P = {} THEN 0 ELSE CHOOSE p \in P : \A q \in P : p <= q

\* The middlewares 1..fIdx, and no other, were invoked, once each and in
\* registration order
InvokedInOrder ==
  /\ \A p \in 1..Len(fLog) : fLog[p].ev = "start" =>
       fLog[p].mw \in 1..fIdx /\ StartPos(fLog[p].mw) = p
  /\ \A k \in 1..fIdx : StartPos(k) # 0 /\ (k > 1 => StartPos(k - 1) < StartPos(k))

\* Middleware k was invoked only after middleware k - 1 had called done()
\* and had not called done(err)
StartedAfterDone ==
  \A k \in 2..fIdx :
    /\ \E q \in 1..(StartPos(k) - 1) :
         fLog[q] = [ev |-> "done", mw |-> k - 1, err |-> 0]
    /\ \A q \in 1..(StartPos(k) - 1) :
         (fLog[q].ev = "done" /\ fLog[q].mw = k - 1) => fLog[q].err = 0

\* Resolved: every registered middleware was invoked and has called done()
ResolvedAfterLast ==
  fState = "resolved" =>
    /\ fIdx = Len(fastifyMiddlewareList)
    /\ \A k \in 1..fIdx : FirstDone(k) # 0 /\ fLog[FirstDone(k)].err = 0

\* C20 as stated: the middlewares are invoked in registration order, each
\* after its predecessor called done() without an error; the call resolves
\* after the last one called done(); whenever a middleware has called
\* done(err), the call is rejected with err and no later middleware was
\* invoked.
C20_DoneErrRejects ==
  /\ InvokedInOrder
  /\ StartedAfterDone
  /\ ResolvedAfterLast
  /\ \A p \in 1..Len(fLog) :
       (fLog[p].ev = "done" /\ fLog[p].err # 0) =>
         fState = "rejected" /\ fErr = fLog[p].err /\ fIdx = fLog[p].mw

\* C20, amended: the same order, start and resolution, and the first call
\* of done by a middleware decides: when it passes err, the call is rejected
\* with err and no later middleware was invoked; a call of done after the
\* first changes nothing.
C20_FirstDoneDecides ==
  /\ InvokedInOrder
  /\ StartedAfterDone
  /\ ResolvedAfterLast
  /\ \A k \in 1..fIdx :
       (FirstDone(k) # 0 /\ fLog[FirstDone(k)].err # 0) =>
         fState = "rejected" /\ fErr = fLog[FirstDone(k)].err /\ fIdx = k
  /\ \A k \in 1..fIdx :
       (FirstDone(k) # 0 /\ fLog[FirstDone(k)].err = 0) =>
         \/ fIdx > k
         \/ k = Len(fastifyMiddlewareList) /\ fState = "resolved"

\* The second of three middlewares called done(err) after the first had
\* called done(): the call is rejected and the third was not invoked
C20_Witness ==
  /\ Len(fastifyMiddlewareList) = 3
  /\ fIdx = 2
  /\ FirstDone(1) # 0
  /\ FirstDone(2) # 0
  /\ fLog[FirstDone(2)].err = 2
  /\ fState = "rejected"

(***************************************************************************)
(* startServer                                                             *)
(***************************************************************************)
BeforeStartFailed == failedAt = "beforeServerStart"

\* C21: when the run of the before-start stage rejects, startServer has
\* emitted serverError and the process has exited with code 1; server.listen
\* was never called, the listener is not bound, and no later lifecycle
\* stage was run; nothing happens after the exit.
C21_BeforeStartFailureAborts ==
  /\ [](BeforeStartFailed =>
          /\ startPc = "exited"
          /\ exitCode = 1
          /\ emitted = <<"serverError">>
          /\ ~listenCalled
          /\ ~bound
          /\ stagesRun = <<"beforeServerStart">>)
  /\ [][exitCode # NoExit => UNCHANGED startVars]_vars

\* The before-start stage failed with a serverError listener registered
C21_Witness ==
  /\ BeforeStartFailed
  /\ listeners["serverError"] # <<>>
  /\ exitCode = 1

(***************************************************************************)
(* MessageQueue.enqueue: when the returned promise resolves                *)
(***************************************************************************)
\* The step is the call enqueue for task t
EnqueueStep(t) == nextTask = t /\ nextTask' = t + 1

\* C22: an enqueue call made while a drain loop is active is resolved in
\* the same step, with its task appended and not yet started; any other
\* enqueue call resolves only in a step that leaves the queue empty, the
\* processing flag false and every task enqueued so far settled.
C22_EnqueueResolution ==
  [][\A t \in TaskIds :
       /\ (EnqueueStep(t) /\ processing) =>
            /\ callState'[t] = "resolved"
            /\ taskState'[t] = "queued"
            /\ queue' = Append(queue, t)
            /\ execCount'[t] = 0
       /\ (/\ callState'[t] = "resolved"
           /\ callState[t] # "resolved"
           /\ ~(EnqueueStep(t) /\ processing)) =>
            /\ queue' = <<>>
            /\ ~processing'
            /\ \A u \in 1..(nextTask' - 1) : taskState'[u] \in {"ok", "failed"}]_vars

\* A call made during the drain has resolved with its task still queued,
\* while the call that started the drain is pending
C22_Witness ==
  \E o, t \in TaskIds :
    /\ o < t
    /\ callState[o] = "pending"
    /\ callState[t] = "resolved"
    /\ taskState[t] = "queued"

\* C23: while a task is executing and does not settle, the processing flag
\* is true, no task is started, and every enqueue call appends its task
\* and returns.
C23_HungTaskBlocksQueue ==
  /\ [](executing # {} => processing)
  /\ [][(\E t \in executing : t \in executing') =>
          /\ processing'
          /\ executing' = executing
          /\ startOrder' = startOrder
          /\ \A u \in TaskIds : EnqueueStep(u) =>
               /\ queue' = Append(queue, u)
               /\ callState'[u] = "resolved"]_vars

\* Two tasks were enqueued behind an executing task: both calls returned
\* and neither task has started
C23_Witness ==
  /\ Cardinality(executing) = 1
  /\ Len(queue) = 2
  /\ \A i \in 1..Len(queue) :
       callState[queue[i]] = "resolved" /\ execCount[queue[i]] = 0

(***************************************************************************)
(* The ledger and the live components after the copy                       *)
(***************************************************************************)
LedgerChanges ==
  \/ hookMap' # hookMap
  \/ hookKeys' # hookKeys
  \/ eventMap' # eventMap
  \/ eventKeys' # eventKeys

LiveChanges ==
  \/ hooks' # hooks
  \/ runs' # runs
  \/ listeners' # listeners
  \/ lastOp' # lastOp

\* C24: a step that changes the ledger (addHook, addEvent) leaves the live
\* handler lists unchanged, also after applyHooks/applyEvents; a run calls
\* the handlers of the live list of its stage and an emit the listeners of
\* the live list of its topic, whatever the ledger holds, and neither
\* changes the ledger.
C24_LedgerNotConsultedAgain ==
  /\ [][LedgerChanges => ~LiveChanges]_vars
  /\ [][(runs' # runs \/ lastOp' # lastOp) => ~LedgerChanges]_vars
  /\ [](\A r \in RunIds : \A i \in 1..Len(runs[r].calls) :
          /\ i <= Len(hooks[runs[r].stage])
          /\ runs[r].calls[i].h = hooks[runs[r].stage][i])
  /\ [](lastOp.op = "emit" =>
          lastOp.invoked = CallInOrder(lastOp.before[lastOp.topic]).invoked)

\* After applyHooks a handler was added to the ledger only, and a run of
\* the stage has resolved having called the live handlers only
C24_Witness ==
  /\ applied.hooks = 1
  /\ runs[1].pc = "resolved"
  /\ hooks[runs[1].stage] # <<>>
  /\ Len(runs[1].calls) = Len(hooks[runs[1].stage])
  /\ Len(hookMap[runs[1].stage]) > Len(hooks[runs[1].stage])

(***************************************************************************)
(* The request handler of the HTTP server                                  *)
(***************************************************************************)
\* The steps of one request are ordered: no middleware is invoked before
\* the run of onRequestStart has resolved; a route or the default handler
\* is invoked only when executeMiddlewares has resolved; at most one custom
\* route handler is invoked, that of the first matching template; the
\* default handler is invoked only when no template matches and no headers
\* were sent; the run of onRequestEnd is started only when no step failed
RequestOrder ==
  /\ invs # <<>> => reqPc \notin {"idle", "onRequestStart"}
  /\ invs # <<>> => failedStep # "onRequestStart"
  /\ (routeCalls # <<>> \/ defaultRan) => exec = "resolved"
  /\ Len(routeCalls) <= 1
  /\ routeCalls # <<>> =>
       routeCalls[1] = FirstMatch(request.path, RouteHandlers(request.method))
  /\ defaultRan =>
       /\ routeCalls = <<>>
       /\ FirstMatch(request.path, RouteHandlers(request.method)) = 0
  /\ endRan =>
       /\ failedStep \in {"none", "onRequestEnd"}
       /\ \A c \in 1..Len(invs) : invs[c].phase # "threw"

\* C25 as stated: the steps of every request are ordered as above, the
\* default handler starts with no headers sent, and once the run of
\* onRequestEnd has started no middleware, route handler or default handler
\* starts or runs: the stage runs last.
C25_RequestSteps ==
  /\ [](RequestOrder)
  /\ [][(defaultRan' /\ ~defaultRan) => ~headersSent]_vars
  /\ [][endRan => (invs' = invs /\ routeCalls' = routeCalls
                   /\ defaultRan' = defaultRan)]_vars

\* The same for the requests whose middlewares all await their
\* continuation or do not call it
AwaitedRequestSteps ==
  /\ [](("fire" \notin {middlewares[k] : k \in 1..Len(middlewares)}) => RequestOrder)
  /\ [][(defaultRan' /\ ~defaultRan) => ~headersSent]_vars
  /\ [][(endRan /\ "fire" \notin {middlewares[k] : k \in 1..Len(middlewares)})
          => (invs' = invs /\ routeCalls' = routeCalls
              /\ defaultRan' = defaultRan)]_vars

(***************************************************************************)
(* executeMiddlewares: the shared index                                    *)
(***************************************************************************)
\* In this step the invocation c has called its continuation a second time,
\* with a middleware left to start
SecondCall(c) ==
  /\ c \in 1..Len(invs)
  /\ invs[c].phase = "next1"
  /\ invs'[c].phase = "next2"

\* C26: the k-th invocation of an executeMiddlewares call is that of the
\* k-th registered middleware, so each middleware is invoked at most once
\* and in increasing order; an invocation is never withdrawn or changed to
\* another middleware; a second call of the continuation by a middleware
\* invokes the first middleware that has not been started.
C26_EachMiddlewareOnce ==
  /\ [](/\ Len(invs) <= Len(middlewares)
        /\ mwIndex = Len(invs)
        /\ \A c \in 1..Len(invs) : invs[c].mw = c)
  /\ [][/\ Len(invs') >= Len(invs)
        /\ \A c \in 1..MaxMw :
             SecondCall(c) =>
               /\ Len(invs') > Len(invs)
               /\ invs'[Len(invs')].mw = Len(invs')
               /\ invs'[Len(invs')].parent = c]_vars

\* A middleware has called its continuation twice: the two calls started
\* two different middlewares
C26_Witness ==
  \E c, d, e \in 1..Len(invs) :
    /\ middlewares[invs[c].mw] = "twice"
    /\ d < e
    /\ invs[d].parent = c
    /\ invs[e].parent = c

(***************************************************************************)
(* HookSystem.run and register during a run                                *)
(***************************************************************************)
\* C27: a run that was suspended at a handler calls the handlers of the
\* live list of its stage in order, and when it resolves it has called
\* every handler registered on the stage by then, also those registered
\* while it was suspended.
C27_RunSeesLateRegistration ==
  /\ [](\A r \in RunIds : \A i \in 1..Len(runs[r].calls) :
          /\ i <= Len(hooks[runs[r].stage])
          /\ runs[r].calls[i].h = hooks[runs[r].stage][i])
  /\ [][\A r \in RunIds :
          (runs[r].pc = "awaiting" /\ runs'[r].pc = "resolved") =>
            Len(runs'[r].calls) = Len(hooks'[runs[r].stage])]_vars

\* A run has resolved after calling a handler that was registered on its
\* stage after the run was called
C27_Witness ==
  \E r \in RunIds :
    /\ runs[r].pc = "resolved"
    /\ runs[r].n0 >= 1
    /\ Len(runs[r].calls) > runs[r].n0

(***************************************************************************)
(* Overlapping runs of one stage                                           *)
(***************************************************************************)
RECURSIVE SeqRun(_, _)
\* The outcome of a run of the handlers hs, started with result res, that
\* no other run overlaps
SeqRun(hs, res) ==
  IF hs = <<>> THEN [pc |-> "resolved", out |-> res]
  ELSE IF res.kind # "list" THEN [pc |-> "rejected", out |-> TypeError]
  ELSE LET a == Apply(Head(hs), res.items)
       IN IF a.ok THEN SeqRun(Tail(hs), a.val)
          ELSE [pc |-> "rejected", out |-> a.val]

\* The outcome of the settled run rs is that of a run alone over the
\* handlers of its stage: those it called, and for a rejected run possibly
\* the next one, to which the result could not be passed
Determined(rs) ==
  LET hs == hooks[rs.stage]
      n == Len(rs.calls)
  IN IF rs.pc = "resolved"
     THEN SeqRun(SubSeq(hs, 1, n), List(rs.args)) = [pc |-> "resolved", out |-> rs.out]
     ELSE \E m \in {n, n + 1} :
            /\ m <= Len(hs)
            /\ SeqRun(SubSeq(hs, 1, m), List(rs.args)) = [pc |-> "rejected", out |-> rs.out]

\* C28: whatever the interleaving of the runs at their await points, the
\* outcome of every settled run is the outcome of a run alone with the same
\* arguments over the handler list of its stage, and two resolved runs of
\* one stage that called the same handlers have the same result.
C28_RunsDoNotInterfere ==
  /\ \A r \in RunIds :
       runs[r].pc \in {"resolved", "rejected"} => Determined(runs[r])
  /\ \A r, q \in RunIds :
       (/\ runs[r].pc = "resolved"
        /\ runs[q].pc = "resolved"
        /\ runs[r].stage = runs[q].stage
        /\ Len(runs[r].calls) = Len(runs[q].calls)) => runs[r].out = runs[q].out

\* A run of a stage has resolved, after calling two handlers, while an
\* earlier run of the same stage is still suspended at a handler
C28_Witness ==
  \E r, q \in RunIds :
    /\ q < r
    /\ runs[q].pc = "awaiting"
    /\ runs[r].pc = "resolved"
    /\ runs[r].stage = runs[q].stage
    /\ Len(runs[r].calls) >= 2

(***************************************************************************)
(* Short-circuit in the request handler                                    *)
(***************************************************************************)
NoneThrew == \A c \in 1..Len(invs) : invs[c].phase # "threw"
MatchedRoute == FirstMatch(request.path, RouteHandlers(request.method))

\* C29: when a middleware has returned without calling its continuation
\* and no middleware has thrown, executeMiddlewares is not rejected and the
\* request does not fail in the middleware step; when the handler has gone
\* past the routes, the handler of the matching route was invoked and the
\* run of onRequestEnd was started; and the handler does get there, unless
\* the route handler itself fails.
C29_ShortCircuitKeepsRoute ==
  /\ [](\A c \in 1..Len(invs) :
          (ShortCircuited(c) /\ NoneThrew) =>
            /\ exec # "rejected"
            /\ failedStep \in {"none", "route", "default", "onRequestEnd"}
            /\ reqPc \in {"onRequestEnd", "done"} =>
                 /\ endRan
                 /\ MatchedRoute # 0 => routeCalls = <<MatchedRoute>>)
  /\ (\E c \in 1..Len(invs) : ShortCircuited(c) /\ NoneThrew)
       ~> (endRan \/ failedStep \in {"route", "default"})

\* A middleware short-circuited before a later middleware, the matching
\* custom route was invoked and the run of onRequestEnd has resolved
C29_Witness ==
  /\ \E c \in 1..Len(invs) : ShortCircuited(c) /\ invs[c].mw < Len(middlewares)
  /\ routeCalls # <<>>
  /\ endRan
  /\ reqPc = "done"

(***************************************************************************)
(* executeFastifyMiddlewares: a middleware that never calls done           *)
(***************************************************************************)
\* The loop waits for a middleware that returned, or whose promise
\* rejected, without a call of done to come
Hung ==
  /\ fState = "pending"
  /\ fIdx >= 1
  /\ fastifyMiddlewareList[fIdx] \in {"never", "asyncThrow"}

\* C30: once the loop waits for a middleware that never calls done, also
\* one whose returned promise rejects, no step settles the call or invokes
\* a later middleware: the call stays pending.
C30_NoDoneNeverSettles ==
  [][Hung => (Hung' /\ fIdx' = fIdx /\ StartPos(fIdx + 1)' = 0)]_vars

\* The loop waits for an async middleware whose promise rejected, with a
\* later middleware registered
C30_Witness ==
  /\ Hung
  /\ fastifyMiddlewareList[fIdx] = "asyncThrow"
  /\ fIdx < Len(fastifyMiddlewareList)
  /\ fIdx >= 2

====
